---- MODULE Spec2Model ----
(***************************************************************************)
(* digitalocean-js: the resource services (DropletService, the two         *)
(* AppService sources, SpaceService) as a state machine.  Every method     *)
(* builds one HTTP request and settles one promise from the response.      *)
(***************************************************************************)
EXTENDS Integers, Sequences, FiniteSets, TLC

VARIABLES
  defaultsAuth,   \* Axios.defaults.headers.common['Authorization']
  services,       \* the DropletService instances constructed so far
  promises,       \* the promises the caller holds, one per invocation
  http,           \* the HTTP exchanges: each request and, once arrived, its response
  nInvoked,       \* number of method invocations
  nSent           \* number of HTTP requests handed to the transport

vars == <<defaultsAuth, services, promises, http, nInvoked, nSent>>

----------------------------------------------------------------------------
(* Bounds and input sets *)

MaxCalls == 3        \* invocations in one behaviour
MaxInFlight == 2     \* overlapping invocations of a caller that does not await
MaxServices == 2     \* DropletService instances constructed

Ids == {1, 2}
Tags == {"web", "db"}
Bodies == {"specA"}
Tokens == {"t1", "t2"}
Payloads == {<<>>, <<1, 2>>, <<2, 1>>}
ErrorStatuses == {"404", "ECONNREFUSED"}

\* every field name some method reads, and the lowercase names of the App envelope
EnvelopeFields ==
  {"droplet", "droplets", "App", "Apps", "app", "apps", "kernels", "snapshots",
   "backups", "actions", "neighbors", "account"}
DropletFields == {"droplet", "droplets"}

NoParams == <<>>
NoBody == "none"

----------------------------------------------------------------------------
(* The request a method builds and the way it settles its promise.          *)
(*   verb, base, path, params, data : the arguments of the Axios call       *)
(*   then  : "field"    -> resolve with response.data[field]                *)
(*           "void"     -> resolve() with no value                          *)
(*           "response" -> the Axios promise is returned as it is           *)

baseUrl == "env.baseUrl"
instanceBaseURL == "instance.baseURL"
instanceAuth == "instance.headers"

Call(verb, base, path, params, data, then, field) ==
  [verb |-> verb, base |-> base, path |-> path, params |-> params,
   data |-> data, then |-> then, field |-> field]

TagParams(tag) == <<"tag_name", tag>>

\* ---- DropletService
createNewDroplet(dropletRequest) ==
  Call("POST", baseUrl, "/droplets", NoParams, dropletRequest, "field", "droplet")
createMultipleDroplets(dropletsRequest) ==
  Call("POST", baseUrl, "/droplets", NoParams, dropletsRequest, "field", "droplets")
getExistingDroplet(dropletId) ==
  Call("GET", baseUrl, "/droplets/" \o ToString(dropletId), NoParams, NoBody, "field", "droplet")
getAllDroplets ==
  Call("GET", baseUrl, "/droplets", NoParams, NoBody, "field", "droplets")
getDropletsByTag(tag) ==
  Call("GET", baseUrl, "/droplets?tag_name=" \o tag, NoParams, NoBody, "field", "droplets")
getAvailableKernelsForDroplet(dropletId) ==
  Call("GET", baseUrl, "/droplets/" \o ToString(dropletId) \o "/kernels", NoParams, NoBody,
       "field", "kernels")
getSnapshotsForDroplet(dropletId) ==
  Call("GET", baseUrl, "/droplets/" \o ToString(dropletId) \o "/snapshots", NoParams, NoBody,
       "field", "snapshots")
getBackupsForDroplet(dropletId) ==
  Call("GET", baseUrl, "/droplets/" \o ToString(dropletId) \o "/backups", NoParams, NoBody,
       "field", "backups")
getDropletActions(dropletId) ==
  Call("GET", baseUrl, "/droplets/" \o ToString(dropletId) \o "/actions", NoParams, NoBody,
       "field", "actions")
deleteDroplet(dropletId) ==
  Call("DELETE", baseUrl, "/droplets/" \o ToString(dropletId), NoParams, NoBody, "void", "")
deleteDropletsByTag(tag) ==
  Call("DELETE", baseUrl, "/droplets?tag_name=" \o tag, NoParams, NoBody, "void", "")
getNeighborsForDroplet(dropletId) ==
  Call("DELETE", baseUrl, "/droplets/" \o ToString(dropletId) \o "/neighbors", NoParams, NoBody,
       "field", "droplets")
getDropletNeighbors ==
  Call("DELETE", baseUrl, "/reports/droplet_neighbors", NoParams, NoBody, "field", "neighbors")

\* ---- AppService (services/app/app.service.ts)
createNewApp(App) ==
  Call("POST", instanceBaseURL, "/apps", NoParams, App, "field", "App")
createMultipleApps(AppsRequest) ==
  Call("POST", instanceBaseURL, "/apps", NoParams, AppsRequest, "field", "Apps")
getExistingApp(AppId) ==
  Call("GET", instanceBaseURL, "/apps/" \o ToString(AppId), NoParams, NoBody, "field", "App")
getAllApps ==
  Call("GET", instanceBaseURL, "/apps", NoParams, NoBody, "field", "Apps")
getAppsByTag(tag) ==
  Call("GET", instanceBaseURL, "/apps", TagParams(tag), NoBody, "field", "Apps")
deleteApp(AppId) ==
  Call("DELETE", instanceBaseURL, "/apps/" \o ToString(AppId), NoParams, NoBody, "response", "")
deleteAppsByTag(tag) ==
  Call("DELETE", instanceBaseURL, "/apps", TagParams(tag), NoBody, "response", "")

\* ---- AppService, the longer source (with sub-resources and neighbors)
createNewApp2(App) ==
  Call("POST", instanceBaseURL, "/Apps", NoParams, App, "field", "App")
createMultipleApps2(AppsRequest) ==
  Call("POST", instanceBaseURL, "/Apps", NoParams, AppsRequest, "field", "Apps")
getExistingApp2(AppId) ==
  Call("GET", instanceBaseURL, "/apps/" \o ToString(AppId), NoParams, NoBody, "field", "App")
getAllApps2 ==
  Call("GET", instanceBaseURL, "/Apps", NoParams, NoBody, "field", "Apps")
getAppsByTag2(tag) ==
  Call("GET", instanceBaseURL, "/Apps", TagParams(tag), NoBody, "field", "Apps")
getAvailableKernelsForApp(AppId) ==
  Call("GET", instanceBaseURL, "/Apps/" \o ToString(AppId) \o "/kernels", NoParams, NoBody,
       "field", "kernels")
getSnapshotsForApp(AppId) ==
  Call("GET", instanceBaseURL, "/Apps/" \o ToString(AppId) \o "/snapshots", NoParams, NoBody,
       "field", "snapshots")
getBackupsForApp(AppId) ==
  Call("GET", instanceBaseURL, "/Apps/" \o ToString(AppId) \o "/backups", NoParams, NoBody,
       "field", "backups")
getAppActions(AppId) ==
  Call("GET", instanceBaseURL, "/Apps/" \o ToString(AppId) \o "/actions", NoParams, NoBody,
       "field", "actions")
deleteApp2(AppId) ==
  Call("DELETE", instanceBaseURL, "/Apps/" \o ToString(AppId), NoParams, NoBody, "response", "")
deleteAppsByTag2(tag) ==
  Call("DELETE", instanceBaseURL, "/Apps", TagParams(tag), NoBody, "response", "")
getNeighborsForApp(AppId) ==
  Call("DELETE", instanceBaseURL, "/Apps/" \o ToString(AppId) \o "/neighbors", NoParams, NoBody,
       "field", "Apps")
getAppNeighbors ==
  Call("DELETE", instanceBaseURL, "/reports/App_neighbors", NoParams, NoBody, "field", "neighbors")

\* ---- SpaceService
getUserInformation ==
  Call("GET", instanceBaseURL, "/app", NoParams, NoBody, "field", "account")

----------------------------------------------------------------------------
(* Invocations: a service, one of its methods and the arguments of its signature *)

Inv(svc, method, id, tag, data) ==
  [svc |-> svc, method |-> method, id |-> id, tag |-> tag, data |-> data]
WithData(svc, method) == {Inv(svc, method, 0, "", b) : b \in Bodies}
WithId(svc, method) == {Inv(svc, method, i, "", NoBody) : i \in Ids}
WithTag(svc, method) == {Inv(svc, method, 0, t, NoBody) : t \in Tags}
Plain(svc, method) == {Inv(svc, method, 0, "", NoBody)}

DropletCore ==
  WithData("DropletService", "createNewDroplet")
    \cup WithData("DropletService", "createMultipleDroplets")
    \cup WithId("DropletService", "getExistingDroplet")
    \cup Plain("DropletService", "getAllDroplets")
    \cup WithTag("DropletService", "getDropletsByTag")

DropletService ==
  DropletCore
    \cup WithId("DropletService", "getAvailableKernelsForDroplet")
    \cup WithId("DropletService", "getSnapshotsForDroplet")
    \cup WithId("DropletService", "getBackupsForDroplet")
    \cup WithId("DropletService", "getDropletActions")
    \cup WithId("DropletService", "deleteDroplet")
    \cup WithTag("DropletService", "deleteDropletsByTag")
    \cup WithId("DropletService", "getNeighborsForDroplet")
    \cup Plain("DropletService", "getDropletNeighbors")

AppService ==
  WithData("AppService", "createNewApp")
    \cup WithData("AppService", "createMultipleApps")
    \cup WithId("AppService", "getExistingApp")
    \cup Plain("AppService", "getAllApps")
    \cup WithTag("AppService", "getAppsByTag")
    \cup WithId("AppService", "deleteApp")
    \cup WithTag("AppService", "deleteAppsByTag")

AppService2 ==
  WithData("AppService2", "createNewApp")
    \cup WithData("AppService2", "createMultipleApps")
    \cup WithId("AppService2", "getExistingApp")
    \cup Plain("AppService2", "getAllApps")
    \cup WithTag("AppService2", "getAppsByTag")
    \cup WithId("AppService2", "getAvailableKernelsForApp")
    \cup WithId("AppService2", "getSnapshotsForApp")
    \cup WithId("AppService2", "getBackupsForApp")
    \cup WithId("AppService2", "getAppActions")
    \cup WithId("AppService2", "deleteApp")
    \cup WithTag("AppService2", "deleteAppsByTag")
    \cup WithId("AppService2", "getNeighborsForApp")
    \cup Plain("AppService2", "getAppNeighbors")

SpaceService == Plain("SpaceService", "getUserInformation")

AllInvocations == DropletService \cup AppService \cup AppService2 \cup SpaceService

\* the Axios call the invoked method makes
Request(inv) ==
  LET m == inv.method IN
  CASE inv.svc = "DropletService" ->
        (CASE m = "createNewDroplet" -> createNewDroplet(inv.data)
           [] m = "createMultipleDroplets" -> createMultipleDroplets(inv.data)
           [] m = "getExistingDroplet" -> getExistingDroplet(inv.id)
           [] m = "getAllDroplets" -> getAllDroplets
           [] m = "getDropletsByTag" -> getDropletsByTag(inv.tag)
           [] m = "getAvailableKernelsForDroplet" -> getAvailableKernelsForDroplet(inv.id)
           [] m = "getSnapshotsForDroplet" -> getSnapshotsForDroplet(inv.id)
           [] m = "getBackupsForDroplet" -> getBackupsForDroplet(inv.id)
           [] m = "getDropletActions" -> getDropletActions(inv.id)
           [] m = "deleteDroplet" -> deleteDroplet(inv.id)
           [] m = "deleteDropletsByTag" -> deleteDropletsByTag(inv.tag)
           [] m = "getNeighborsForDroplet" -> getNeighborsForDroplet(inv.id)
           [] m = "getDropletNeighbors" -> getDropletNeighbors)
    [] inv.svc = "AppService" ->
        (CASE m = "createNewApp" -> createNewApp(inv.data)
           [] m = "createMultipleApps" -> createMultipleApps(inv.data)
           [] m = "getExistingApp" -> getExistingApp(inv.id)
           [] m = "getAllApps" -> getAllApps
           [] m = "getAppsByTag" -> getAppsByTag(inv.tag)
           [] m = "deleteApp" -> deleteApp(inv.id)
           [] m = "deleteAppsByTag" -> deleteAppsByTag(inv.tag))
    [] inv.svc = "AppService2" ->
        (CASE m = "createNewApp" -> createNewApp2(inv.data)
           [] m = "createMultipleApps" -> createMultipleApps2(inv.data)
           [] m = "getExistingApp" -> getExistingApp2(inv.id)
           [] m = "getAllApps" -> getAllApps2
           [] m = "getAppsByTag" -> getAppsByTag2(inv.tag)
           [] m = "getAvailableKernelsForApp" -> getAvailableKernelsForApp(inv.id)
           [] m = "getSnapshotsForApp" -> getSnapshotsForApp(inv.id)
           [] m = "getBackupsForApp" -> getBackupsForApp(inv.id)
           [] m = "getAppActions" -> getAppActions(inv.id)
           [] m = "deleteApp" -> deleteApp2(inv.id)
           [] m = "deleteAppsByTag" -> deleteAppsByTag2(inv.tag)
           [] m = "getNeighborsForApp" -> getNeighborsForApp(inv.id)
           [] m = "getAppNeighbors" -> getAppNeighbors)
    [] inv.svc = "SpaceService" -> getUserInformation

----------------------------------------------------------------------------
(* Responses of the transport and settlement of the promise *)

NoData == [kind |-> "undefined", field |-> "", value |-> <<>>]   \* response.data absent
EmptyData == [kind |-> "empty", field |-> "", value |-> <<>>]    \* response.data = ''
Json(field, value) == [kind |-> "json", field |-> field, value |-> value]

NoReply == [ok |-> FALSE, status |-> "", data |-> NoData, req |-> 0]
Failure(status) == [ok |-> FALSE, status |-> status, data |-> NoData, req |-> 0]
Success(data) ==
  [ok |-> TRUE, status |-> IF data.kind = "json" THEN "200" ELSE "204", data |-> data, req |-> 0]

\* what the transport may answer: an error, or a 2xx with one of the bodies
Replies(fields) ==
  {Failure(s) : s \in ErrorStatuses}
    \cup {Success(NoData), Success(EmptyData)}
    \cup {Success(Json(f, v)) : f \in fields, v \in Payloads}

Pending == [state |-> "pending", kind |-> "", value |-> <<>>, reply |-> NoReply]
Resolved(kind, value, reply) ==
  [state |-> "resolved", kind |-> kind, value |-> value, reply |-> reply]
Rejected(kind, reply) ==
  [state |-> "rejected", kind |-> kind, value |-> <<>>, reply |-> reply]

\* faulty variant: the catch handler swallows the error and the promise resolves empty
SettleSwallowed(call, response) ==
  IF ~response.ok THEN Resolved("undefined", <<>>, NoReply)
  ELSE IF call.then = "response" THEN Resolved("response", <<>>, response)
  ELSE IF call.then = "void" \/ response.data.kind # "json" \/ response.data.field # call.field
    THEN Resolved("undefined", <<>>, NoReply)
  ELSE Resolved("value", response.data.value, NoReply)

\* faulty variant: an explicit decode step rejects a body without the field
SettleGuarded(call, response) ==
  IF ~response.ok THEN Rejected("error", response)
  ELSE IF call.then = "response" THEN Resolved("response", <<>>, response)
  ELSE IF call.then = "void" THEN Resolved("undefined", <<>>, NoReply)
  ELSE IF response.data.kind = "json" /\ response.data.field = call.field
    THEN Resolved("value", response.data.value, NoReply)
  ELSE Rejected("MalformedResponse", NoReply)

\* .then(response => resolve(response.data.<field>)).catch(error => reject(error)),
\* and the promise chains of the App and Space services
Settle(call, response) ==
  IF ~response.ok THEN Rejected("error", response)
  ELSE CASE call.then = "response" -> Resolved("response", <<>>, response)
         [] call.then = "void" -> Resolved("undefined", <<>>, NoReply)
         [] call.then = "field" ->
              IF response.data.kind = "undefined" THEN Rejected("TypeError", NoReply)
              ELSE IF response.data.kind = "json" /\ response.data.field = call.field
                THEN Resolved("value", response.data.value, NoReply)
              ELSE Resolved("undefined", <<>>, NoReply)

----------------------------------------------------------------------------
(* State machine *)

Bearer(accessToken) == "Bearer " \o accessToken

\* nothing constructed yet
InitAuth ==
  /\ defaultsAuth = ""
  /\ services = <<>>
  /\ promises = <<>>
  /\ http = <<>>
  /\ nInvoked = 0
  /\ nSent = 0

\* the client after new DropletService(accessToken)
Init ==
  \E accessToken \in Tokens :
    /\ defaultsAuth = Bearer(accessToken)
    /\ services = <<[accessToken |-> accessToken]>>
    /\ promises = <<>>
    /\ http = <<>>
    /\ nInvoked = 0
    /\ nSent = 0

\* new DropletService(accessToken)
Construct(accessToken) ==
  /\ Len(services) < MaxServices
  /\ services' = Append(services, [accessToken |-> accessToken])
  /\ defaultsAuth' = Bearer(accessToken)
  /\ UNCHANGED <<promises, http, nInvoked, nSent>>

\* faulty variant: every instance sends its own token
AuthorizationOwn(inv, self) ==
  IF inv.svc = "DropletService" THEN Bearer(services[self].accessToken) ELSE instanceAuth

\* the Authorization header a request carries: the global Axios defaults for
\* DropletService, the headers of the shared instance for the other services
Authorization(inv, self) ==
  IF inv.svc = "DropletService" THEN defaultsAuth ELSE instanceAuth

Exchange(id, callId, call, auth) ==
  [id |-> id, call |-> callId, verb |-> call.verb, base |-> call.base, path |-> call.path,
   params |-> call.params, data |-> call.data, auth |-> auth, response |-> NoReply]

\* faulty variant: an answer a settled promise of the same invocation already holds is reused
SendCached(inv, self, callId) ==
  IF \E i \in 1..Len(promises) : promises[i].inv = inv /\ promises[i].outcome.state = "resolved"
  THEN <<>>
  ELSE <<Exchange(nSent + 1, callId, Request(inv), Authorization(inv, self))>>

\* the requests one invocation hands to the transport: the single Axios call of its body
Send(inv, self, callId) ==
  <<Exchange(nSent + 1, callId, Request(inv), Authorization(inv, self))>>

Selves(inv) == IF inv.svc = "DropletService" THEN 1..Len(services) ELSE {0}

Issue(inv, self, kept, keptHttp) ==
  LET id == nInvoked + 1
      sent == Send(inv, self, id)
  IN /\ nInvoked < MaxCalls
     /\ promises' = Append(kept, [id |-> id, inv |-> inv, self |-> self,
                                  outcome |-> Pending, settles |-> 0])
     /\ http' = keptHttp \o sent
     /\ nInvoked' = id
     /\ nSent' = nSent + Len(sent)
     /\ UNCHANGED <<defaultsAuth, services>>

\* a caller that awaits every call, as in the examples of the doc comments: the
\* next method is invoked once the previous promise has settled and been consumed
InvokeAwaited(invocations) ==
  \E inv \in invocations : \E self \in Selves(inv) :
    /\ \A i \in 1..Len(promises) : promises[i].outcome.state # "pending"
    /\ Issue(inv, self, <<>>, <<>>)

\* a caller that keeps several calls in flight
InvokeConcurrent(invocations) ==
  \E inv \in invocations : \E self \in Selves(inv) :
    /\ Len(promises) < MaxInFlight
    /\ Issue(inv, self, promises, http)

\* faulty variant: resolve and reject are shared, the latest invocation's are called
OwnerLatest(x) == promises[Len(promises)].id

\* the promise whose resolve and reject the handlers of this request close over
Owner(x) == x.call

\* the response to request i arrives and the handlers of its promise run
Respond(fields) ==
  \E i \in 1..Len(http) : \E reply \in Replies(fields) :
    LET response == [reply EXCEPT !.req = http[i].id]
        k == CHOOSE j \in 1..Len(promises) : promises[j].id = Owner(http[i])
    IN /\ http[i].response = NoReply
       /\ http' = [http EXCEPT ![i].response = response]
       /\ promises' = [promises EXCEPT
            ![k].outcome = IF @.state = "pending"
                           THEN Settle(Request(promises[k].inv), response) ELSE @,
            ![k].settles = @ + 1]
       /\ UNCHANGED <<defaultsAuth, services, nInvoked, nSent>>

\* every service, used by a caller that awaits each call
Next ==
  \/ InvokeAwaited(AllInvocations)
  \/ Respond(EnvelopeFields)

Spec == Init /\ [][Next]_vars

\* DropletService with further instances constructed between the calls
NextAuth ==
  \/ \E accessToken \in Tokens : Construct(accessToken)
  \/ InvokeAwaited(DropletService)
  \/ Respond(DropletFields)

SpecAuth == InitAuth /\ [][NextAuth]_vars

\* DropletService with overlapping calls
NextConcurrent ==
  \/ InvokeConcurrent(DropletCore)
  \/ Respond(DropletFields)

SpecConcurrent == Init /\ [][NextConcurrent]_vars

----------------------------------------------------------------------------
(* Vocabulary of the claims: what a method is for, and the conventions of   *)
(* the remote API for the resource it works on                              *)

Kind(inv) ==
  LET m == inv.method IN
  CASE m \in {"createNewDroplet", "createNewApp"} -> "create"
    [] m \in {"createMultipleDroplets", "createMultipleApps"} -> "createMultiple"
    [] m \in {"getExistingDroplet", "getExistingApp"} -> "getExisting"
    [] m \in {"getAllDroplets", "getAllApps"} -> "getAll"
    [] m \in {"getDropletsByTag", "getAppsByTag"} -> "getByTag"
    [] m \in {"getAvailableKernelsForDroplet", "getSnapshotsForDroplet", "getBackupsForDroplet",
              "getDropletActions", "getAvailableKernelsForApp", "getSnapshotsForApp",
              "getBackupsForApp", "getAppActions"} -> "getAssociated"
    [] m \in {"deleteDroplet", "deleteApp"} -> "delete"
    [] m \in {"deleteDropletsByTag", "deleteAppsByTag"} -> "deleteByTag"
    [] m \in {"getNeighborsForDroplet", "getNeighborsForApp"} -> "getNeighbors"
    [] m \in {"getDropletNeighbors", "getAppNeighbors"} -> "getNeighborsReport"
    [] OTHER -> "getAccount"

Subpath(inv) ==
  LET m == inv.method IN
  CASE m \in {"getAvailableKernelsForDroplet", "getAvailableKernelsForApp"} -> "kernels"
    [] m \in {"getSnapshotsForDroplet", "getSnapshotsForApp"} -> "snapshots"
    [] m \in {"getBackupsForDroplet", "getBackupsForApp"} -> "backups"
    [] m \in {"getDropletActions", "getAppActions"} -> "actions"
    [] OTHER -> ""

IsDroplet(inv) == inv.svc = "DropletService"
Collection(inv) == IF IsDroplet(inv) THEN "/droplets" ELSE "/apps"
Singular(inv) == IF IsDroplet(inv) THEN "droplet" ELSE "app"
Plural(inv) == IF IsDroplet(inv) THEN "droplets" ELSE "apps"

Calls == 1..Len(promises)
ExchangesOf(k) == {i \in 1..Len(http) : http[i].call = promises[k].id}
Answered(i) == http[i].response # NoReply
\* the response to request i is a success whose JSON body holds the field
Holds(i, field) ==
  /\ Answered(i)
  /\ http[i].response.ok
  /\ http[i].response.data.kind = "json"
  /\ http[i].response.data.field = field

----------------------------------------------------------------------------
(* C1: when the HTTP call of an operation fails (transport failure or a     *)
(* non-2xx response), the operation's promise is rejected with exactly the  *)
(* error the transport produced and never resolves.                         *)
C1_FailureSurfacedVerbatim ==
  \A k \in Calls : \A i \in ExchangesOf(k) :
    (Answered(i) /\ ~http[i].response.ok) =>
      /\ promises[k].outcome.state = "rejected"
      /\ promises[k].outcome.kind = "error"
      /\ promises[k].outcome.reply = http[i].response

C1_Witness ==
  \E k \in Calls : \E i \in ExchangesOf(k) :
    /\ promises[k].inv.svc = "AppService"
    /\ promises[k].inv.method = "getExistingApp"
    /\ http[i].response.status = "404"
    /\ promises[k].outcome.state = "rejected"

(* C2: every invocation issues exactly one HTTP request: the number of      *)
(* requests sent equals the number of invocations, each held promise has    *)
(* one request of its own, and a promise settles only from the response to  *)
(* that request (no retry, no follow-up request, no cached answer).         *)
C2_OneRequestPerInvocation ==
  /\ nSent = nInvoked
  /\ \A k \in Calls :
       /\ Cardinality(ExchangesOf(k)) = 1
       /\ promises[k].outcome.state # "pending" => \A i \in ExchangesOf(k) : Answered(i)

C2_Witness ==
  /\ nInvoked = 3
  /\ nSent = 3
  /\ \E k \in Calls : \E i \in ExchangesOf(k) :
       /\ promises[k].inv.method = "getExistingDroplet"
       /\ http[i].id = 3
       /\ promises[k].outcome = Resolved("value", <<1, 2>>, NoReply)

(* C3: getAll and getByTag, on a successful response, resolve with the      *)
(* sequence held in the plural envelope field of the resource (droplets,    *)
(* apps), an empty one included, and never with an absent value.            *)
C3_ListUnwrapsPlural ==
  \A k \in Calls : \A i \in ExchangesOf(k) :
    (Kind(promises[k].inv) \in {"getAll", "getByTag"} /\ Holds(i, Plural(promises[k].inv))) =>
      promises[k].outcome = Resolved("value", http[i].response.data.value, NoReply)

(* C4: delete and deleteByTag resolve with no value on every successful     *)
(* response and reject with the propagated error on a failure.              *)
C4_DeleteResolvesVoid ==
  \A k \in Calls : \A i \in ExchangesOf(k) :
    (Kind(promises[k].inv) \in {"delete", "deleteByTag"} /\ Answered(i)) =>
      IF http[i].response.ok
      THEN promises[k].outcome = Resolved("undefined", <<>>, NoReply)
      ELSE promises[k].outcome = Rejected("error", http[i].response)

(* C5: the neighbor lookups issue a GET, and no operation whose purpose is  *)
(* to read sends a state-changing verb.                                     *)
C5_ReadsUseGet ==
  \A k \in Calls : \A i \in ExchangesOf(k) :
    Kind(promises[k].inv) \notin {"create", "createMultiple", "delete", "deleteByTag"} =>
      http[i].verb = "GET"

(* C6: the Authorization header is written only by the DropletService       *)
(* constructor, and every request a DropletService instance sends carries   *)
(* the bearer token of the most recently constructed instance.              *)
C6_LastTokenWins ==
  [][/\ defaultsAuth' # defaultsAuth =>
          /\ Len(services') = Len(services) + 1
          /\ defaultsAuth' = Bearer(services'[Len(services')].accessToken)
     /\ nSent' # nSent =>
          \A i \in 1..Len(http') :
            http'[i].id > nSent => http'[i].auth = Bearer(services[Len(services)].accessToken)
    ]_vars

C6_Witness ==
  /\ Len(services) = 2
  /\ services[1].accessToken = "t1"
  /\ services[2].accessToken = "t2"
  /\ \E k \in Calls : \E i \in ExchangesOf(k) :
       /\ promises[k].self = 1
       /\ http[i].auth = "Bearer t2"

(* C7: create and createMultiple POST the given spec to the collection      *)
(* path; create resolves with the singular envelope field, createMultiple   *)
(* with the plural envelope field of the response.                          *)
C7_CreateUnwraps ==
  \A k \in Calls : \A i \in ExchangesOf(k) :
    LET inv == promises[k].inv
        field == IF Kind(inv) = "create" THEN Singular(inv) ELSE Plural(inv)
    IN Kind(inv) \in {"create", "createMultiple"} =>
         /\ http[i].verb = "POST"
         /\ http[i].path = Collection(inv)
         /\ http[i].data = inv.data
         /\ Holds(i, field) =>
              promises[k].outcome = Resolved("value", http[i].response.data.value, NoReply)

(* C8: request paths follow the conventions: the lowercase plural           *)
(* collection path, collection/{id} for an item, the collection with        *)
(* tag_name=<tag> for tag-scoped list and delete, collection/{id}/{sub}     *)
(* for a sub-resource.                                                      *)
C8_PathConventions ==
  \A k \in Calls : \A i \in ExchangesOf(k) :
    LET inv == promises[k].inv
        kind == Kind(inv)
        coll == Collection(inv)
        item == coll \o "/" \o ToString(inv.id)
    IN /\ kind \in {"create", "createMultiple", "getAll"} =>
            http[i].path = coll /\ http[i].params = NoParams
       /\ kind \in {"getExisting", "delete"} =>
            http[i].path = item /\ http[i].params = NoParams
       /\ kind \in {"getByTag", "deleteByTag"} =>
            \/ http[i].path = coll /\ http[i].params = <<"tag_name", inv.tag>>
            \/ http[i].path = coll \o "?tag_name=" \o inv.tag /\ http[i].params = NoParams
       /\ kind = "getAssociated" =>
            http[i].path = item \o "/" \o Subpath(inv) /\ http[i].params = NoParams

(* C9: each associated-resource lookup issues a GET on                      *)
(* collection/{id}/{subpath} and resolves with the envelope field named as  *)
(* the subpath, never with the field of another sub-resource.               *)
C9_AssociatedUnwrapsSubpath ==
  \A k \in Calls : \A i \in ExchangesOf(k) :
    LET inv == promises[k].inv IN
    Kind(inv) = "getAssociated" =>
      /\ http[i].verb = "GET"
      /\ http[i].path = Collection(inv) \o "/" \o ToString(inv.id) \o "/" \o Subpath(inv)
      /\ Holds(i, Subpath(inv)) =>
           promises[k].outcome = Resolved("value", http[i].response.data.value, NoReply)
      /\ (Answered(i) /\ ~Holds(i, Subpath(inv))) => promises[k].outcome.kind # "value"

(* C10: with several operations in flight and responses arriving in any     *)
(* order, each promise settles exactly once, and its outcome is the         *)
(* unwrapping (or the error) of the response to its own request only.       *)
C10_SettlesFromOwnResponse ==
  \A k \in Calls : \A i \in ExchangesOf(k) :
    IF Answered(i)
    THEN /\ promises[k].settles = 1
         /\ http[i].response.req = http[i].id
         /\ promises[k].outcome = Settle(Request(promises[k].inv), http[i].response)
    ELSE /\ promises[k].settles = 0
         /\ promises[k].outcome = Pending

C10_Witness ==
  /\ Len(promises) = 2
  /\ promises[1].outcome = Pending
  /\ promises[2].outcome = Resolved("value", <<2, 1>>, NoReply)
  /\ promises[1].inv = promises[2].inv

(* C11 as stated: for every unwrapping operation a 2xx response whose JSON   *)
(* body lacks the field the operation reads resolves with an absent value,  *)
(* a 2xx response with no body at all rejects with a field-access fault,    *)
(* and no dedicated malformed-response error is produced.                   *)
Unwraps(k) == Request(promises[k].inv).then = "field"
Reads(k) == Request(promises[k].inv).field
LacksField(k, i) ==
  /\ Answered(i) /\ http[i].response.ok
  /\ http[i].response.data.kind = "json"
  /\ http[i].response.data.field # Reads(k)
NoBodyAtAll(i) ==
  /\ Answered(i) /\ http[i].response.ok
  /\ http[i].response.data.kind \in {"undefined", "empty"}

C11_NoBodyAlwaysFaults ==
  \A k \in Calls : \A i \in ExchangesOf(k) :
    Unwraps(k) =>
      /\ LacksField(k, i) => promises[k].outcome = Resolved("undefined", <<>>, NoReply)
      /\ NoBodyAtAll(i) => promises[k].outcome = Rejected("TypeError", NoReply)
      /\ promises[k].outcome.kind # "MalformedResponse"

(* C11 as amended: a body lacking the field resolves with an absent value;  *)
(* a bodiless 2xx response rejects with a field-access fault when           *)
(* response.data is absent and resolves with an absent value when the       *)
(* transport delivers the empty body as an empty string; no dedicated       *)
(* malformed-response error is produced in any of these cases.              *)
C11_MissingFieldUnguarded ==
  \A k \in Calls : \A i \in ExchangesOf(k) :
    Unwraps(k) =>
      /\ LacksField(k, i) => promises[k].outcome = Resolved("undefined", <<>>, NoReply)
      /\ (NoBodyAtAll(i) /\ http[i].response.data.kind = "undefined") =>
           promises[k].outcome = Rejected("TypeError", NoReply)
      /\ (NoBodyAtAll(i) /\ http[i].response.data.kind = "empty") =>
           promises[k].outcome = Resolved("undefined", <<>>, NoReply)
      /\ promises[k].outcome.kind # "MalformedResponse"

C11_Witness ==
  \E k \in Calls : \E i \in ExchangesOf(k) :
    /\ promises[k].inv.method = "getUserInformation"
    /\ NoBodyAtAll(i)
    /\ http[i].response.data.kind = "empty"
    /\ http[i].response.status = "204"
    /\ promises[k].outcome = Resolved("undefined", <<>>, NoReply)

====
